---- MODULE Spec2Model ----
(***************************************************************************)
(* Model of the Chirpy HTTP server (andres-verdenelli/HTTP-Server): the    *)
(* request handlers of src/index.ts, the helpers of src/auth.ts and the    *)
(* queries of src/db/queries/*.ts over the users, refresh_tokens and       *)
(* chirps tables.  Requests are served one at a time.  Every handler is    *)
(* one atomic action: it reads the request, runs its queries against the   *)
(* tables and leaves its response in res; the 'finish' event of the        *)
(* response ends the request.                                              *)
(*                                                                         *)
(* Strings that the code inspects character by character (the              *)
(* authorization header, the tokens) are sequences of character codes.     *)
(* Instants are records [s, ms]: whole seconds and the milliseconds        *)
(* within the second, so that Date.now() / 1000 has something to floor.    *)
(***************************************************************************)
EXTENDS Integers, Sequences, FiniteSets, TLC

VARIABLES
    now,            \* the wall clock read by Date.now() and by SQL now()
    platform,       \* config.platform
    fileserverHits, \* config.fileserverHits
    users,          \* rows of the users table
    nextUserId,     \* the id the users table gives to its next row
    refreshTokens,  \* rows of the refresh_tokens table
    chirps,         \* rows of the chirps table, in insertion order
    res,            \* the response of the request being served
    inflight,       \* results of queries whose handlers have not resumed
    env,            \* the signing secret in the environment of the process
    configSecret,   \* config.secret
    phase           \* "loading", "failed" or "listening"

vars == <<now, platform, fileserverHits, users, nextUserId, refreshTokens, chirps, res,
         inflight, env, configSecret, phase>>

\* the state of the process start
startup == <<env, configSecret, phase>>

----------------------------------------------------------------------------
(* Bounds *)

MaxUsers == 2
MaxTokens == 2
MaxChirps == 1
MaxHits == 1
MaxInflight == 2

----------------------------------------------------------------------------
(* Values *)

T(s, ms) == [s |-> s, ms |-> ms]

NULL == [null |-> TRUE]

Undefined == [type |-> "undefined"]

Str(v) == [type |-> "string", val |-> v]

Num(v) == [type |-> "number", val |-> v]

\* a > b on instants
Gt(a, b) == \/ a.s > b.s
            \/ a.s = b.s /\ a.ms > b.ms

\* the instant d seconds after a
PlusSeconds(a, d) == T(a.s + d, a.ms)

AccessTTL == 3600

\* 30 days
RefreshTTL_ThirtyDays == 30 * 24 * 60 * 60

\* 60 * 24 * 60 * 60 * 1000 ms, in seconds
RefreshTTL == 60 * 24 * 60 * 60

\* config.secret
Secret == 1

\* a signing key that is not the server's
OtherSecret == Secret + 1

\* "chirpy"
Issuer == <<99, 104, 105, 114, 112, 121>>

\* "Bearer "
BearerPrefix == <<66, 101, 97, 114, 101, 114, 32>>

----------------------------------------------------------------------------
(* src/auth.ts *)

Salts == {1}

\* the part of the password bcrypt reads: its first 72 bytes
bcryptKey(password) ==
    IF Len(password) > 72 THEN SubSeq(password, 1, 72) ELSE password

hashPassword(password, salt) ==
    [cost |-> 10, salt |-> salt, digest |-> <<salt, bcryptKey(password)>>]

\* bcrypt.compare: false for a string that is not a bcrypt hash
checkPasswordHash(password, hash) ==
    /\ DOMAIN hash = {"cost", "salt", "digest"}
    /\ hash.digest = <<hash.salt, bcryptKey(password)>>

\* HMAC-SHA256 of the payload under the secret, symbolically
Sign(payload, secret) == <<secret>> \o payload

\* exp set to the lifetime itself
makeJWT_ExpiresInOnly(userID, expiresIn, secret) ==
    LET timeNow == now.s
        payload == Issuer \o <<userID, timeNow, expiresIn>>
    IN  payload \o Sign(payload, secret)

makeJWT(userID, expiresIn, secret) ==
    LET timeNow == now.s
        payload == Issuer \o <<userID, timeNow, timeNow + expiresIn>>
    IN  payload \o Sign(payload, secret)

PayloadLen == Len(Issuer) + 3

Error(message) == [name |-> "Error", message |-> message]

JsonWebTokenError(message) == [name |-> "JsonWebTokenError", message |-> message]

TokenExpiredError(message) == [name |-> "TokenExpiredError", message |-> message]

\* the value stands for an exception: NULL, or the error thrown
Throws(v) == v = NULL \/ "name" \in DOMAIN v

\* jwt.verify accepting a token in the second of its exp
JwtVerify_ExpiryInclusive(tokenString, secret) ==
    IF Len(tokenString) # 2 * PayloadLen + 1 THEN JsonWebTokenError("jwt malformed")
    ELSE LET payload == SubSeq(tokenString, 1, PayloadLen)
             signature == SubSeq(tokenString, PayloadLen + 1, Len(tokenString))
             exp == payload[PayloadLen]
         IN  IF signature # Sign(payload, secret) THEN JsonWebTokenError("invalid signature")
             ELSE IF now.s > exp THEN TokenExpiredError("jwt expired")
             ELSE [iss |-> SubSeq(payload, 1, Len(Issuer)),
                   sub |-> payload[Len(Issuer) + 1],
                   iat |-> payload[Len(Issuer) + 2],
                   exp |-> exp]

\* jwt.verify: the decoded payload, or the error it throws
JwtVerify(tokenString, secret) ==
    IF Len(tokenString) # 2 * PayloadLen + 1 THEN JsonWebTokenError("jwt malformed")
    ELSE LET payload == SubSeq(tokenString, 1, PayloadLen)
             signature == SubSeq(tokenString, PayloadLen + 1, Len(tokenString))
             exp == payload[PayloadLen]
         IN  IF signature # Sign(payload, secret) THEN JsonWebTokenError("invalid signature")
             ELSE IF now.s >= exp THEN TokenExpiredError("jwt expired")
             ELSE [iss |-> SubSeq(payload, 1, Len(Issuer)),
                   sub |-> payload[Len(Issuer) + 1],
                   iat |-> payload[Len(Issuer) + 2],
                   exp |-> exp]

\* the function without its catch block
validateJWT_Rethrows(tokenString, secret) ==
    LET decoded == JwtVerify(tokenString, secret)
    IN  IF Throws(decoded) THEN decoded
        ELSE IF decoded.sub = 0
        THEN Error("No existe sub dentro del token o no es un string")
        ELSE Str(decoded.sub)

\* the function returning the iat claim
validateJWT_ReturnsIssuedAt(tokenString, secret) ==
    LET decoded == JwtVerify(tokenString, secret)
    IN  IF Throws(decoded) THEN Error("Error validating token")
        ELSE Str(decoded.iat)

\* the subject, or the error the catch block throws
validateJWT(tokenString, secret) ==
    LET decoded == JwtVerify(tokenString, secret)
        attempt == IF Throws(decoded) THEN decoded
                   ELSE IF decoded.sub = 0
                   THEN Error("No existe sub dentro del token o no es un string")
                   ELSE Str(decoded.sub)
    IN  IF Throws(attempt) THEN Error("Error validating token") ELSE attempt

startsWith(str, prefix) ==
    /\ Len(str) >= Len(prefix)
    /\ SubSeq(str, 1, Len(prefix)) = prefix

toLowerCase(word) == [i \in 1..Len(word) |-> IF word[i] \in 65..90 THEN word[i] + 32 ELSE word[i]]

\* the scheme compared without regard to case
getBearerToken_AnyCase(authorization) ==
    IF authorization.type # "string" THEN NULL
    ELSE IF ~startsWith(toLowerCase(authorization.val), toLowerCase(BearerPrefix)) THEN NULL
    ELSE Str(SubSeq(authorization.val, 8, Len(authorization.val)))

\* the token, or NULL when it throws
getBearerToken(authorization) ==
    IF authorization.type # "string" THEN NULL
    ELSE IF ~startsWith(authorization.val, BearerPrefix) THEN NULL
    ELSE Str(SubSeq(authorization.val, 8, Len(authorization.val)))

\* crypto.randomBytes(32).toString('hex'): the values it may return
makeRefreshToken == {<<d>> : d \in 1..MaxTokens}

----------------------------------------------------------------------------
(* src/db/queries *)

getUserByEmail(email) ==
    IF \E u \in users : u.email = email
    THEN CHOOSE u \in users : u.email = email
    ELSE NULL

\* the query without isNull(refreshTokens.revokedAt)
getUserFromRefreshToken_NoRevocationCheck(token) ==
    LET joined == {p \in refreshTokens \X users : p[1].userId = p[2].id}
        rows == {[id |-> p[2].id, email |-> p[2].email] :
                    p \in {q \in joined : /\ q[1].token = token
                                          /\ Gt(q[1].expiresAt, now)}}
    IN  IF rows = {} THEN NULL ELSE CHOOSE row \in rows : TRUE

\* the query with gte in place of gt
getUserFromRefreshToken_ExpiryInclusive(token) ==
    LET joined == {p \in refreshTokens \X users : p[1].userId = p[2].id}
        rows == {[id |-> p[2].id, email |-> p[2].email] :
                    p \in {q \in joined : /\ q[1].token = token
                                          /\ q[1].revokedAt = NULL
                                          /\ ~Gt(now, q[1].expiresAt)}}
    IN  IF rows = {} THEN NULL ELSE CHOOSE row \in rows : TRUE

\* the query reading refresh_tokens alone, without the join on users
getUserFromRefreshToken_NoJoin(token) ==
    LET rows == {[id |-> r.userId, email |-> NULL] :
                    r \in {q \in refreshTokens : /\ q.token = token
                                                 /\ q.revokedAt = NULL
                                                 /\ Gt(q.expiresAt, now)}}
    IN  IF rows = {} THEN NULL ELSE CHOOSE row \in rows : TRUE

getUserFromRefreshToken(token) ==
    LET joined == {p \in refreshTokens \X users : p[1].userId = p[2].id}
        rows == {[id |-> p[2].id, email |-> p[2].email] :
                    p \in {q \in joined : /\ q[1].token = token
                                          /\ q[1].revokedAt = NULL
                                          /\ Gt(q[1].expiresAt, now)}}
    IN  IF rows = {} THEN NULL ELSE CHOOSE row \in rows : TRUE

\* users.email is unique
emailTaken(email) == \E u \in users : u.email = email

\* the inserted row, or NULL when onConflictDoNothing inserts nothing
createUser(user) ==
    IF emailTaken(user.email) THEN NULL
    ELSE [id |-> nextUserId, email |-> user.email, hashedPassword |-> user.hashedPassword]

deleteAllUsers == {}

createChirp(chirp) == [id |-> Len(chirps) + 1, body |-> chirp.body, userId |-> chirp.userId]

\* the update written as a toggle of revokedAt
revokeRefreshToken_Toggle(token) ==
    {IF r.token = token
     THEN [r EXCEPT !.revokedAt = IF r.revokedAt = NULL THEN now ELSE NULL,
                    !.updatedAt = now]
     ELSE r : r \in refreshTokens}

\* the update also ending the record's validity
revokeRefreshToken_ExpiresNow(token) ==
    {IF r.token = token
     THEN [r EXCEPT !.revokedAt = now, !.updatedAt = now, !.expiresAt = now]
     ELSE r : r \in refreshTokens}

\* the update reaching every token of the owner
revokeRefreshToken_AllOfUser(token) ==
    {IF \E o \in refreshTokens : o.token = token /\ o.userId = r.userId
     THEN [r EXCEPT !.revokedAt = now, !.updatedAt = now]
     ELSE r : r \in refreshTokens}

revokeRefreshToken(token) ==
    {IF r.token = token
     THEN [r EXCEPT !.revokedAt = now, !.updatedAt = now]
     ELSE r : r \in refreshTokens}

QueryError == [name |-> "PostgresError", message |-> "duplicate key value"]

\* a table without a key on token
tokenTaken_NoKey(token) == FALSE

\* refresh_tokens.token is the key of the table
tokenTaken(token) == \E r \in refreshTokens : r.token = token

\* the columns an insert into refresh_tokens does not name
refreshTokenDefaults == [revokedAt |-> NULL, createdAt |-> now, updatedAt |-> now]

\* the table after the insert, or the error the insert throws
createRefreshToken(input) ==
    IF tokenTaken(input.token)
    THEN [error |-> QueryError, rows |-> refreshTokens]
    ELSE [error |-> NULL,
          rows |-> refreshTokens \cup
                     {[token |-> input.token, userId |-> input.userId,
                       expiresAt |-> input.expiresAt] @@ refreshTokenDefaults}]

----------------------------------------------------------------------------
(* src/index.ts *)

Json(status, body) == [status |-> status, body |-> body]

BadRequestError(message) == [name |-> "BadRequestError", message |-> message]

TypeError == [name |-> "TypeError", message |-> "Cannot destructure"]

\* no response has been written
NoResponse == Json(0, <<>>)

errorHandler(err) ==
    IF err.name = "BadRequestError"
    THEN Json(400, [error |-> err.message])
    ELSE Json(500, [error |-> "Something went wrong on our end"])

\* "kerfuffle", "sharbert", "fornax"
bannedWords == {<<107, 101, 114, 102, 117, 102, 102, 108, 101>>,
                <<115, 104, 97, 114, 98, 101, 114, 116>>,
                <<102, 111, 114, 110, 97, 120>>}

\* phrase.split(' ')
RECURSIVE split(_)
split(phrase) ==
    IF \A i \in 1..Len(phrase) : phrase[i] # 32 THEN <<phrase>>
    ELSE LET k == CHOOSE i \in 1..Len(phrase) :
                      /\ phrase[i] = 32
                      /\ \A j \in 1..(i - 1) : phrase[j] # 32
         IN  <<SubSeq(phrase, 1, k - 1)>> \o split(SubSeq(phrase, k + 1, Len(phrase)))

\* words.join(' ')
RECURSIVE join(_)
join(words) ==
    IF Len(words) = 1 THEN words[1]
    ELSE words[1] \o <<32>> \o join(Tail(words))

replaceBadWords(phrase) ==
    LET words == split(phrase)
        filteredWords == [i \in 1..Len(words) |->
                             IF toLowerCase(words[i]) \in bannedWords
                             THEN <<42, 42, 42, 42>> ELSE words[i]]
    IN  join(filteredWords)

\* the object as it is
withoutPassword_Keeps(user) == user

\* the object without its hashedPassword property
withoutPassword(user) == [f \in DOMAIN user \ {"hashedPassword"} |-> user[f]]

\* the 'finish' listener: the response has been sent
middlewareLogResponses ==
    /\ res # NoResponse
    /\ res' = NoResponse
    /\ UNCHANGED <<now, platform, fileserverHits, users, nextUserId, refreshTokens, chirps, inflight, startup>>

middlewareMetricsInc ==
    /\ fileserverHits < MaxHits
    /\ fileserverHits' = fileserverHits + 1
    /\ res' = Json(200, [file |-> "index.html"])
    /\ UNCHANGED <<now, platform, users, nextUserId, refreshTokens, chirps, inflight, startup>>

\* the handler without the platform check
handleReset_Ungated ==
    /\ users' = deleteAllUsers
    /\ fileserverHits' = 0
    /\ res' = Json(200, [ok |-> TRUE])
    /\ UNCHANGED <<now, platform, nextUserId, refreshTokens, chirps, inflight, startup>>

handleReset ==
    /\ IF platform # "dev"
       THEN /\ res' = Json(403, <<>>)
            /\ UNCHANGED <<users, fileserverHits>>
       ELSE /\ users' = deleteAllUsers
            /\ fileserverHits' = 0
            /\ res' = Json(200, [ok |-> TRUE])
    /\ UNCHANGED <<now, platform, nextUserId, refreshTokens, chirps, inflight, startup>>

handleCreateUser(req) ==
    /\ IF ~req.isJson
       THEN /\ res' = errorHandler(BadRequestError("Invalid Content-Type"))
            /\ UNCHANGED <<users, nextUserId>>
       ELSE IF req.email.type # "string"
       THEN /\ res' = Json(400, [error |-> "Missing email"])
            /\ UNCHANGED <<users, nextUserId>>
       ELSE IF req.password.type # "string"
       THEN /\ res' = Json(400, [error |-> "Missing password"])
            /\ UNCHANGED <<users, nextUserId>>
       ELSE \E salt \in Salts :
              LET hashedPassword == hashPassword(req.password.val, salt)
                  createdUser == createUser([email |-> req.email.val,
                                             hashedPassword |-> hashedPassword])
              IN  IF createdUser = NULL
                  THEN /\ res' = errorHandler(TypeError)
                       /\ UNCHANGED <<users, nextUserId>>
                  ELSE /\ nextUserId <= MaxUsers
                       /\ users' = users \cup {createdUser}
                       /\ nextUserId' = nextUserId + 1
                       /\ res' = Json(201, withoutPassword(createdUser))
    /\ UNCHANGED <<now, platform, fileserverHits, refreshTokens, chirps, inflight, startup>>

\* the handler also asking for an unrevoked refresh token of the user
handleValidateChirp_ChecksSession(req) ==
    /\ IF ~req.isJson
       THEN /\ res' = Json(400, [error |-> "Invalid Content-Type"])
            /\ UNCHANGED chirps
       ELSE IF req.body.type # "string"
       THEN /\ res' = Json(400, [error |-> "Invalid or missing \"body\""])
            /\ UNCHANGED chirps
       ELSE LET token == getBearerToken(req.authorization)
                userId == IF Throws(token) THEN token ELSE validateJWT(token.val, configSecret)
            IN  IF \/ Throws(userId)
                   \/ ~\E r \in refreshTokens : r.userId = userId.val /\ r.revokedAt = NULL
                THEN /\ res' = Json(401, [error |-> "Invalid or missing token"])
                     /\ UNCHANGED chirps
                ELSE IF Len(req.body.val) > 140
                THEN /\ res' = errorHandler(BadRequestError("Chirp is too long. Max length is 140"))
                     /\ UNCHANGED chirps
                ELSE LET cleanedBody == replaceBadWords(req.body.val)
                         newChirp == createChirp([body |-> cleanedBody, userId |-> userId.val])
                     IN  /\ Len(chirps) < MaxChirps
                         /\ chirps' = Append(chirps, newChirp)
                         /\ res' = Json(201, newChirp)
    /\ UNCHANGED <<now, platform, fileserverHits, users, nextUserId, refreshTokens, inflight, startup>>

\* the handler reading the subject with jwt.decode, which verifies nothing
handleValidateChirp_DecodesOnly(req) ==
    /\ IF ~req.isJson
       THEN /\ res' = Json(400, [error |-> "Invalid Content-Type"])
            /\ UNCHANGED chirps
       ELSE IF req.body.type # "string"
       THEN /\ res' = Json(400, [error |-> "Invalid or missing \"body\""])
            /\ UNCHANGED chirps
       ELSE LET token == getBearerToken(req.authorization)
                userId == IF Throws(token) THEN token
                          ELSE IF Len(token.val) # 2 * PayloadLen + 1
                          THEN Error("Error validating token")
                          ELSE Str(token.val[Len(Issuer) + 1])
            IN  IF Throws(userId)
                THEN /\ res' = Json(401, [error |-> "Invalid or missing token"])
                     /\ UNCHANGED chirps
                ELSE IF Len(req.body.val) > 140
                THEN /\ res' = errorHandler(BadRequestError("Chirp is too long. Max length is 140"))
                     /\ UNCHANGED chirps
                ELSE LET cleanedBody == replaceBadWords(req.body.val)
                         newChirp == createChirp([body |-> cleanedBody, userId |-> userId.val])
                     IN  /\ Len(chirps) < MaxChirps
                         /\ chirps' = Append(chirps, newChirp)
                         /\ res' = Json(201, newChirp)
    /\ UNCHANGED <<now, platform, fileserverHits, users, nextUserId, refreshTokens, inflight, startup>>

handleValidateChirp(req) ==
    /\ IF ~req.isJson
       THEN /\ res' = Json(400, [error |-> "Invalid Content-Type"])
            /\ UNCHANGED chirps
       ELSE IF req.body.type # "string"
       THEN /\ res' = Json(400, [error |-> "Invalid or missing \"body\""])
            /\ UNCHANGED chirps
       ELSE LET token == getBearerToken(req.authorization)
                userId == IF Throws(token) THEN token ELSE validateJWT(token.val, configSecret)
            IN  IF Throws(userId)
                THEN /\ res' = Json(401, [error |-> "Invalid or missing token"])
                     /\ UNCHANGED chirps
                ELSE IF Len(req.body.val) > 140
                THEN /\ res' = errorHandler(BadRequestError("Chirp is too long. Max length is 140"))
                     /\ UNCHANGED chirps
                ELSE LET cleanedBody == replaceBadWords(req.body.val)
                         newChirp == createChirp([body |-> cleanedBody, userId |-> userId.val])
                     IN  /\ Len(chirps) < MaxChirps
                         /\ chirps' = Append(chirps, newChirp)
                         /\ res' = Json(201, newChirp)
    /\ UNCHANGED <<now, platform, fileserverHits, users, nextUserId, refreshTokens, inflight, startup>>

\* the handler with a message of its own for a wrong password
handleLogin_RevealsPassword(req) ==
    /\ IF ~req.isJson
       THEN /\ res' = Json(400, [error |-> "Invalid Content-Type"])
            /\ UNCHANGED refreshTokens
       ELSE IF req.email.type # "string" \/ req.password.type # "string"
       THEN /\ res' = Json(400, [error |-> "Invalid or missing \"email\" or \"password\""])
            /\ UNCHANGED refreshTokens
       ELSE LET user == getUserByEmail(req.email.val)
            IN  IF user = NULL
                THEN /\ res' = Json(401, [error |-> "Incorrect email or password"])
                     /\ UNCHANGED refreshTokens
                ELSE IF ~checkPasswordHash(req.password.val, user.hashedPassword)
                THEN /\ res' = Json(401, [error |-> "Incorrect password"])
                     /\ UNCHANGED refreshTokens
                ELSE \E refreshToken \in makeRefreshToken :
                       LET jwt == makeJWT(user.id, AccessTTL, configSecret)
                           userWithoutPassword == withoutPassword(user)
                           expiresAt == PlusSeconds(now, RefreshTTL)
                           inserted == createRefreshToken([token |-> refreshToken,
                                                           expiresAt |-> expiresAt,
                                                           userId |-> userWithoutPassword.id])
                       IN  IF inserted.error # NULL
                           THEN /\ res' = errorHandler(inserted.error)
                                /\ UNCHANGED refreshTokens
                           ELSE /\ refreshTokens' = inserted.rows
                                /\ res' = Json(200, userWithoutPassword @@
                                                    [token |-> jwt, refreshToken |-> refreshToken])
    /\ UNCHANGED <<now, platform, fileserverHits, users, nextUserId, chirps, inflight, startup>>

\* the handler storing the refresh token before it checks the password
handleLogin_InsertsFirst(req) ==
    /\ IF ~req.isJson
       THEN /\ res' = Json(400, [error |-> "Invalid Content-Type"])
            /\ UNCHANGED refreshTokens
       ELSE IF req.email.type # "string" \/ req.password.type # "string"
       THEN /\ res' = Json(400, [error |-> "Invalid or missing \"email\" or \"password\""])
            /\ UNCHANGED refreshTokens
       ELSE LET user == getUserByEmail(req.email.val)
            IN  IF user = NULL
                THEN /\ res' = Json(401, [error |-> "Incorrect email or password"])
                     /\ UNCHANGED refreshTokens
                ELSE IF ~checkPasswordHash(req.password.val, user.hashedPassword)
                THEN /\ res' = Json(401, [error |-> "Incorrect email or password"])
                     /\ \E refreshToken \in makeRefreshToken :
                           refreshTokens' =
                             createRefreshToken([token |-> refreshToken,
                                                 expiresAt |-> PlusSeconds(now, RefreshTTL),
                                                 userId |-> user.id]).rows
                ELSE \E refreshToken \in makeRefreshToken :
                       LET jwt == makeJWT(user.id, AccessTTL, configSecret)
                           userWithoutPassword == withoutPassword(user)
                           expiresAt == PlusSeconds(now, RefreshTTL)
                           inserted == createRefreshToken([token |-> refreshToken,
                                                           expiresAt |-> expiresAt,
                                                           userId |-> userWithoutPassword.id])
                       IN  IF inserted.error # NULL
                           THEN /\ res' = errorHandler(inserted.error)
                                /\ UNCHANGED refreshTokens
                           ELSE /\ refreshTokens' = inserted.rows
                                /\ res' = Json(200, userWithoutPassword @@
                                                    [token |-> jwt, refreshToken |-> refreshToken])
    /\ UNCHANGED <<now, platform, fileserverHits, users, nextUserId, chirps, inflight, startup>>

handleLogin(req) ==
    /\ IF ~req.isJson
       THEN /\ res' = Json(400, [error |-> "Invalid Content-Type"])
            /\ UNCHANGED refreshTokens
       ELSE IF req.email.type # "string" \/ req.password.type # "string"
       THEN /\ res' = Json(400, [error |-> "Invalid or missing \"email\" or \"password\""])
            /\ UNCHANGED refreshTokens
       ELSE LET user == getUserByEmail(req.email.val)
            IN  IF user = NULL
                THEN /\ res' = Json(401, [error |-> "Incorrect email or password"])
                     /\ UNCHANGED refreshTokens
                ELSE IF ~checkPasswordHash(req.password.val, user.hashedPassword)
                THEN /\ res' = Json(401, [error |-> "Incorrect email or password"])
                     /\ UNCHANGED refreshTokens
                ELSE \E refreshToken \in makeRefreshToken :
                       LET jwt == makeJWT(user.id, AccessTTL, configSecret)
                           userWithoutPassword == withoutPassword(user)
                           expiresAt == PlusSeconds(now, RefreshTTL)
                           inserted == createRefreshToken([token |-> refreshToken,
                                                           expiresAt |-> expiresAt,
                                                           userId |-> userWithoutPassword.id])
                       IN  IF inserted.error # NULL
                           THEN /\ res' = errorHandler(inserted.error)
                                /\ UNCHANGED refreshTokens
                           ELSE /\ refreshTokens' = inserted.rows
                                /\ res' = Json(200, userWithoutPassword @@
                                                    [token |-> jwt, refreshToken |-> refreshToken])
    /\ UNCHANGED <<now, platform, fileserverHits, users, nextUserId, chirps, inflight, startup>>

\* the handler consuming the refresh token it was given
handleRefresh_Rotates(req) ==
    LET token == getBearerToken(req.authorization)
    IN  /\ IF token = NULL
           THEN /\ res' = Json(401, [error |-> "Missing or invalid Authorization header"])
                /\ UNCHANGED refreshTokens
           ELSE LET user == getUserFromRefreshToken(token.val)
                IN  IF user = NULL
                    THEN /\ res' = Json(401, [error |-> "Invalid, expired, or revoked refresh token"])
                         /\ UNCHANGED refreshTokens
                    ELSE /\ res' = Json(200, [token |-> makeJWT(user.id, AccessTTL, configSecret)])
                         /\ refreshTokens' = revokeRefreshToken(token.val)
        /\ UNCHANGED <<now, platform, fileserverHits, users, nextUserId, chirps, inflight, startup>>

handleRefresh(req) ==
    LET token == getBearerToken(req.authorization)
    IN  /\ IF token = NULL
           THEN res' = Json(401, [error |-> "Missing or invalid Authorization header"])
           ELSE LET user == getUserFromRefreshToken(token.val)
                IN  IF user = NULL
                    THEN res' = Json(401, [error |-> "Invalid, expired, or revoked refresh token"])
                    ELSE res' = Json(200, [token |-> makeJWT(user.id, AccessTTL, configSecret)])
        /\ UNCHANGED <<now, platform, fileserverHits, users, nextUserId, refreshTokens, chirps, inflight, startup>>

\* the handler refusing a token that has no unrevoked record
handleRevoke_ChecksExistence(req) ==
    LET token == getBearerToken(req.authorization)
    IN  /\ IF token = NULL
           THEN /\ res' = Json(401, [error |-> "Missing or invalid Authorization header"])
                /\ UNCHANGED refreshTokens
           ELSE IF ~\E r \in refreshTokens : r.token = token.val /\ r.revokedAt = NULL
           THEN /\ res' = Json(404, [error |-> "Unknown refresh token"])
                /\ UNCHANGED refreshTokens
           ELSE /\ refreshTokens' = revokeRefreshToken(token.val)
                /\ res' = Json(204, <<>>)
        /\ UNCHANGED <<now, platform, fileserverHits, users, nextUserId, chirps, inflight, startup>>

handleRevoke(req) ==
    LET token == getBearerToken(req.authorization)
    IN  /\ IF token = NULL
           THEN /\ res' = Json(401, [error |-> "Missing or invalid Authorization header"])
                /\ UNCHANGED refreshTokens
           ELSE /\ refreshTokens' = revokeRefreshToken(token.val)
                /\ res' = Json(204, <<>>)
        /\ UNCHANGED <<now, platform, fileserverHits, users, nextUserId, chirps, inflight, startup>>

----------------------------------------------------------------------------
(* src/config.ts and the start of the server *)

\* the empty string as a secret
EmptySecret == 0

\* the variable is not set, or set to the empty string
Absent(v) == v = Undefined \/ v = Str(EmptySecret)

\* the configuration falling back to a default secret
loadConfig_DefaultSecret ==
    /\ phase = "loading"
    /\ configSecret' = IF Absent(env) THEN OtherSecret ELSE env.val
    /\ phase' = "configured"
    /\ UNCHANGED <<now, platform, fileserverHits, users, nextUserId, refreshTokens, chirps,
                   res, inflight, env>>

\* the configuration is read from the environment; reading it throws when
\* the secret is absent
loadConfig ==
    /\ phase = "loading"
    /\ IF Absent(env)
       THEN /\ phase' = "failed"
            /\ UNCHANGED configSecret
       ELSE /\ configSecret' = env.val
            /\ phase' = "configured"
    /\ UNCHANGED <<now, platform, fileserverHits, users, nextUserId, refreshTokens, chirps,
                   res, inflight, env>>

\* app.listen
listen ==
    /\ phase = "configured"
    /\ phase' = "listening"
    /\ UNCHANGED <<now, platform, fileserverHits, users, nextUserId, refreshTokens, chirps,
                   res, inflight, env, configSecret>>

----------------------------------------------------------------------------
(* src/index.ts, handlers served concurrently: a handler runs up to the    *)
(* await of a query, the database executes the query, and the handler      *)
(* resumes with the result after the steps of other requests.              *)

\* handleLogin up to the result of getUserByEmail
handleLoginSelect(req) ==
    /\ IF ~req.isJson
       THEN /\ res' = Json(400, [error |-> "Invalid Content-Type"])
            /\ UNCHANGED inflight
       ELSE IF req.email.type # "string" \/ req.password.type # "string"
       THEN /\ res' = Json(400, [error |-> "Invalid or missing \"email\" or \"password\""])
            /\ UNCHANGED inflight
       ELSE /\ Cardinality(inflight) < MaxInflight
            /\ inflight' = inflight \cup {[handler |-> "handleLogin",
                                           password |-> req.password.val,
                                           user |-> getUserByEmail(req.email.val)]}
            /\ UNCHANGED res
    /\ UNCHANGED <<now, platform, fileserverHits, users, nextUserId, refreshTokens, chirps, startup>>

\* handleLogin from the result of getUserByEmail on
handleLoginInsert(p) ==
    /\ p.handler = "handleLogin"
    /\ inflight' = inflight \ {p}
    /\ IF p.user = NULL
       THEN /\ res' = Json(401, [error |-> "Incorrect email or password"])
            /\ UNCHANGED refreshTokens
       ELSE IF ~checkPasswordHash(p.password, p.user.hashedPassword)
       THEN /\ res' = Json(401, [error |-> "Incorrect email or password"])
            /\ UNCHANGED refreshTokens
       ELSE \E refreshToken \in makeRefreshToken :
              LET jwt == makeJWT(p.user.id, AccessTTL, configSecret)
                  userWithoutPassword == withoutPassword(p.user)
                  expiresAt == PlusSeconds(now, RefreshTTL)
                  inserted == createRefreshToken([token |-> refreshToken,
                                                  expiresAt |-> expiresAt,
                                                  userId |-> userWithoutPassword.id])
              IN  IF inserted.error # NULL
                  THEN /\ res' = errorHandler(inserted.error)
                       /\ UNCHANGED refreshTokens
                  ELSE /\ refreshTokens' = inserted.rows
                       /\ res' = Json(200, userWithoutPassword @@
                                           [token |-> jwt, refreshToken |-> refreshToken])
    /\ UNCHANGED <<now, platform, fileserverHits, users, nextUserId, chirps, startup>>

\* the lookup answered from a snapshot that misses the revocations
handleRefreshSelect_Stale(req) ==
    LET token == getBearerToken(req.authorization)
    IN  /\ IF token = NULL
           THEN /\ res' = Json(401, [error |-> "Missing or invalid Authorization header"])
                /\ UNCHANGED inflight
           ELSE /\ Cardinality(inflight) < MaxInflight
                /\ inflight' = inflight \cup
                                  {[handler |-> "handleRefresh",
                                    token |-> token.val,
                                    user |-> getUserFromRefreshToken_NoRevocationCheck(token.val)]}
                /\ UNCHANGED res
        /\ UNCHANGED <<now, platform, fileserverHits, users, nextUserId, refreshTokens, chirps, startup>>

\* handleRefresh up to the result of getUserFromRefreshToken
handleRefreshSelect(req) ==
    LET token == getBearerToken(req.authorization)
    IN  /\ IF token = NULL
           THEN /\ res' = Json(401, [error |-> "Missing or invalid Authorization header"])
                /\ UNCHANGED inflight
           ELSE /\ Cardinality(inflight) < MaxInflight
                /\ inflight' = inflight \cup
                                  {[handler |-> "handleRefresh",
                                    token |-> token.val,
                                    user |-> getUserFromRefreshToken(token.val)]}
                /\ UNCHANGED res
        /\ UNCHANGED <<now, platform, fileserverHits, users, nextUserId, refreshTokens, chirps, startup>>

\* handleRefresh from the result of getUserFromRefreshToken on
handleRefreshRespond(p) ==
    /\ p.handler = "handleRefresh"
    /\ inflight' = inflight \ {p}
    /\ IF p.user = NULL
       THEN res' = Json(401, [error |-> "Invalid, expired, or revoked refresh token"])
       ELSE res' = Json(200, [token |-> makeJWT(p.user.id, AccessTTL, configSecret)])
    /\ UNCHANGED <<now, platform, fileserverHits, users, nextUserId, refreshTokens, chirps, startup>>

----------------------------------------------------------------------------
(* Requests *)

Emails == {"a@example.com", "b@example.com"}

Passwords == {"Secret123!", "hunter2"}

\* the passwords users register with
NewPasswords == {"Secret123!"}

\* two passwords of 73 characters with their first 72 in common
LongPasswords == {"aaaaaaaaaaaaaaaaaaaaaaaaaaaaaaaaaaaaaaaaaaaaaaaaaaaaaaaaaaaaaaaaaaaaaaaab", "aaaaaaaaaaaaaaaaaaaaaaaaaaaaaaaaaaaaaaaaaaaaaaaaaaaaaaaaaaaaaaaaaaaaaaaac"}

\* what a request body may hold in a field that should be a string
Fields(strings) == {Undefined} \cup {Str(v) : v \in strings}

\* bodies with email and password: one that is not JSON, and the JSON ones
Credentials(passwords) ==
    {[isJson |-> FALSE, email |-> Undefined, password |-> Undefined]}
      \cup {[isJson |-> TRUE, email |-> e, password |-> p] :
               e \in Fields(Emails), p \in Fields(passwords)}

\* login bodies, with and without the expiresInSeconds of earlier versions
LoginRequests ==
    {c @@ [expiresInSeconds |-> x] : c \in Credentials(Passwords), x \in {Undefined, Num(60)}}

\* "bearer 1", "Basic xyz", "Bearer"
OtherHeaders == {<<98, 101, 97, 114, 101, 114, 32, 1>>,
                 <<66, 97, 115, 105, 99, 32, 120, 121, 122>>,
                 <<66, 101, 97, 114, 101, 114>>}

\* authorization headers: none, one per credential in tokens, and others
AuthHeaders(tokens) ==
    {Undefined}
      \cup {Str(h) : h \in OtherHeaders}
      \cup {Str(BearerPrefix \o t) : t \in tokens}

\* the token jwt.sign makes of these claims under key
JwtSign(sub, iat, exp, key) ==
    LET payload == Issuer \o <<sub, iat, exp>>
    IN  payload \o Sign(payload, key)

IssueTimes == {0, RefreshTTL}

\* access tokens a client may present: issued by the server at some time,
\* signed by someone else, or without a subject
ClientJWTs ==
    {JwtSign(u, t, t + AccessTTL, Secret) : u \in 1..MaxUsers, t \in IssueTimes}
      \cup {JwtSign(1, 0, AccessTTL, OtherSecret), JwtSign(0, 0, AccessTTL, Secret)}

\* requests that carry a refresh token
TokenRequests ==
    {[authorization |-> h] : h \in AuthHeaders(makeRefreshToken \cup {<<>>})}

\* "Fornax hi", and 141 times "a"
Bodies == {<<70, 111, 114, 110, 97, 120, 32, 104, 105>>, [i \in 1..141 |-> 97]}

ChirpRequests ==
    {[isJson |-> FALSE, body |-> Undefined, authorization |-> Undefined]}
      \cup {[isJson |-> TRUE, body |-> b, authorization |-> h] :
               b \in Fields(Bodies), h \in AuthHeaders(ClientJWTs \cup {<<1>>})}

Instants == {T(0, 0), T(0, 500), T(RefreshTTL, 0)}

Tick == /\ res = NoResponse
        /\ \E t \in Instants : Gt(t, now) /\ now' = t
        /\ UNCHANGED <<platform, fileserverHits, users, nextUserId, refreshTokens, chirps, res, inflight, startup>>

Init ==
    /\ now = T(0, 0)
    /\ platform \in {"dev", "production"}
    /\ fileserverHits = 0
    /\ users = {}
    /\ nextUserId = 1
    /\ refreshTokens = {}
    /\ chirps = <<>>
    /\ res = NoResponse
    /\ inflight = {}
    /\ env = Str(Secret)
    /\ configSecret = Secret
    /\ phase = "listening"

\* the server listens and is serving no request
Serving == phase = "listening" /\ res = NoResponse

Static == Serving /\ middlewareMetricsInc

Reset == Serving /\ handleReset

CreateUser == Serving /\ \E req \in Credentials(NewPasswords) : handleCreateUser(req)

Login == Serving /\ \E req \in LoginRequests : handleLogin(req)

Refresh == Serving /\ \E req \in TokenRequests : handleRefresh(req)

Revoke == Serving /\ \E req \in TokenRequests : handleRevoke(req)

ValidateChirp == Serving /\ \E req \in ChirpRequests : handleValidateChirp(req)

\* the session endpoints
Next ==
    \/ Tick
    \/ middlewareLogResponses
    \/ Reset
    \/ CreateUser
    \/ Login
    \/ Refresh
    \/ Revoke

Spec == Init /\ [][Next]_vars

\* the endpoints that open and use a session, and the reset
NextSignIn ==
    \/ Tick
    \/ middlewareLogResponses
    \/ Reset
    \/ CreateUser
    \/ Login
    \/ Refresh

SpecSignIn == Init /\ [][NextSignIn]_vars

\* the session endpoints and the content endpoints, at one instant
NextApp ==
    \/ middlewareLogResponses
    \/ Static
    \/ CreateUser
    \/ Login
    \/ Refresh
    \/ Revoke
    \/ ValidateChirp

SpecApp == Init /\ [][NextApp]_vars

\* the content endpoints and the reset, over time
NextContent ==
    \/ Tick
    \/ middlewareLogResponses
    \/ Static
    \/ Reset
    \/ CreateUser
    \/ ValidateChirp

SpecContent == Init /\ [][NextContent]_vars

CreateUserAnyPassword ==
    /\ Serving
    /\ \E req \in Credentials(Passwords \cup LongPasswords) : handleCreateUser(req)

LoginAnyPassword ==
    /\ Serving
    /\ \E req \in Credentials(Passwords \cup LongPasswords) :
          handleLogin(req @@ [expiresInSeconds |-> Undefined])

\* registration and login, with passwords of any length
NextCredentials ==
    \/ middlewareLogResponses
    \/ CreateUserAnyPassword
    \/ LoginAnyPassword

SpecCredentials == Init /\ [][NextCredentials]_vars

\* the process before it has read its configuration
InitStartup ==
    /\ now = T(0, 0)
    /\ platform \in {"dev", "production"}
    /\ fileserverHits = 0
    /\ users = {}
    /\ nextUserId = 1
    /\ refreshTokens = {}
    /\ chirps = <<>>
    /\ res = NoResponse
    /\ inflight = {}
    /\ env \in {Undefined, Str(EmptySecret), Str(Secret)}
    /\ configSecret = Undefined
    /\ phase = "loading"

\* the start of the process, and the endpoints that use the secret once
\* the server listens
NextStartup ==
    \/ loadConfig
    \/ listen
    \/ middlewareLogResponses
    \/ CreateUser
    \/ Login
    \/ Refresh
    \/ ValidateChirp

SpecStartup == InitStartup /\ [][NextStartup]_vars

LoginSelect == Serving /\ \E req \in LoginRequests : handleLoginSelect(req)

LoginInsert == Serving /\ \E p \in inflight : handleLoginInsert(p)

RefreshSelect == Serving /\ \E req \in TokenRequests : handleRefreshSelect(req)

RefreshRespond == Serving /\ \E p \in inflight : handleRefreshRespond(p)

\* the session endpoints served concurrently, at one instant
NextConcurrent ==
    \/ middlewareLogResponses
    \/ CreateUser
    \/ LoginSelect
    \/ LoginInsert
    \/ RefreshSelect
    \/ RefreshRespond
    \/ Revoke

SpecConcurrent == Init /\ [][NextConcurrent]_vars

----------------------------------------------------------------------------
(* Properties of the refresh-token lifecycle *)

\* the refresh or revoke request that presents token t
BearerRequest(t) == [authorization |-> Str(BearerPrefix \o t)]

\* the token strings requests present as bearer credentials
PresentedTokens == makeRefreshToken \cup {<<>>}

Revoked(t) == \E r \in refreshTokens : r.token = t /\ r.revokedAt # NULL

Unexpired(r) == Gt(r.expiresAt, now)

Owned(r) == \E u \in users : u.id = r.userId

\* the subject claim of an access token
JwtSubject(jwt) == jwt[Len(Issuer) + 1]

RefreshRefused == Json(401, [error |-> "Invalid, expired, or revoked refresh token"])

\* C1: once the record of token t carries a revocation time, it keeps one
\* in every later state and every refresh request presenting t is
\* answered 401, whether or not the record has expired.
C1_RevokedTokenNeverRefreshes ==
    [][\A t \in PresentedTokens :
          Revoked(t) =>
             /\ Revoked(t)'
             /\ handleRefresh(BearerRequest(t)) => res' = RefreshRefused]_vars

\* a refresh was refused while a revoked record is unexpired and its owner
\* exists, and no record could have been refused for another reason
C1_Witness ==
    /\ res = RefreshRefused
    /\ refreshTokens # {}
    /\ \A r \in refreshTokens : r.revokedAt # NULL /\ Unexpired(r) /\ Owned(r)

C3_RevocationIsOneWay ==
    [][\A r \in refreshTokens :
          r.revokedAt # NULL =>
             \A q \in refreshTokens' : q.token = r.token => q.revokedAt # NULL]_vars

\* a request succeeded after a record was revoked
C3_Witness ==
    /\ res.status = 200
    /\ \E r \in refreshTokens : r.revokedAt # NULL

\* C4: a revoke request for a token that has no record, or whose record is
\* already revoked, is answered 204 and leaves the refresh_tokens table as
\* it was.
C4_RevokeIsIdempotent ==
    [][\A t \in PresentedTokens :
          (/\ handleRevoke(BearerRequest(t))
           /\ \/ ~\E r \in refreshTokens : r.token = t
              \/ Revoked(t))
             => /\ res' = Json(204, <<>>)
                /\ refreshTokens' = refreshTokens]_vars

JwtIat(jwt) == jwt[Len(Issuer) + 2]

\* the expiry of an access token
JwtExp(jwt) == jwt[Len(Issuer) + 3]

----------------------------------------------------------------------------
(* Properties of login *)

LoginRefused == Json(401, [error |-> "Incorrect email or password"])

\* C6: a login whose email and password are strings is answered with one
\* and the same response when no user has the email and when the user with
\* the email has another password.
C6_LoginFailureIsGeneric ==
    [][\A req \in LoginRequests :
          (/\ req.isJson
           /\ req.email.type = "string"
           /\ req.password.type = "string"
           /\ \A u \in users :
                 u.email = req.email.val => u.hashedPassword.digest[2] # req.password.val
           /\ handleLogin(req))
             => res' = LoginRefused]_vars

\* a login was refused while one email is registered and another is not
C6_Witness ==
    /\ res = LoginRefused
    /\ \E e1, e2 \in Emails : emailTaken(e1) /\ ~emailTaken(e2)

\* C7: a login answered 200 is that of a user whose email and password
\* match the request; it adds exactly one record to refresh_tokens, which
\* holds the refresh token of the response, belongs to the user, expires 60
\* days after the login and is unrevoked; the access token names the user.
C7_LoginPersistsOneToken ==
    [][\A req \in LoginRequests :
          (res'.status = 200 /\ "refreshToken" \in DOMAIN res'.body /\ handleLogin(req)) =>
             \E u \in users :
                /\ u.email = req.email.val
                /\ u.hashedPassword.digest[2] = req.password.val
                /\ JwtSubject(res'.body.token) = u.id
                /\ \E r \in refreshTokens' \ refreshTokens :
                      /\ refreshTokens' = refreshTokens \cup {r}
                      /\ r.token = res'.body.refreshToken
                      /\ r.userId = u.id
                      /\ r.expiresAt = T(now.s + 60 * 24 * 60 * 60, now.ms)
                      /\ r.revokedAt = NULL]_vars

\* a login succeeded while another refresh token was already stored
C7_Witness ==
    /\ res.status = 200
    /\ "refreshToken" \in DOMAIN res.body
    /\ Cardinality(refreshTokens) = 2
    /\ \E r \in refreshTokens : r.token = res.body.refreshToken /\ r.createdAt = now

\* C8: the access token of every 200 response, of login and of refresh,
\* expires exactly 3600 seconds after its issue time.
C8_AccessTokenLifetime ==
    (res.status = 200 /\ "token" \in DOMAIN res.body)
       => JwtExp(res.body.token) = JwtIat(res.body.token) + 3600

\* an access token was issued after time 0
C8_Witness ==
    /\ res.status = 200
    /\ "token" \in DOMAIN res.body
    /\ JwtIat(res.body.token) > 0

\* C9: a response that carries a user object, of login or of user creation,
\* has no hashedPassword field.
C9_NoPasswordHashInResponse ==
    res.status \in {200, 201} => "hashedPassword" \notin DOMAIN res.body

\* a login returned the user object of a registered user
C9_Witness ==
    /\ res.status = 200
    /\ {"id", "email"} \subseteq DOMAIN res.body
    /\ \E u \in users : u.id = res.body.id /\ u.email = res.body.email

----------------------------------------------------------------------------
(* Properties of the bearer credential *)

\* the header is a string whose first seven characters are "Bearer "
HasBearerPrefix(h) ==
    /\ h.type = "string"
    /\ Len(h.val) >= 7
    /\ h.val[1] = 66 /\ h.val[2] = 101 /\ h.val[3] = 97 /\ h.val[4] = 114
    /\ h.val[5] = 101 /\ h.val[6] = 114 /\ h.val[7] = 32

MissingCredential == Json(401, [error |-> "Missing or invalid Authorization header"])

InvalidAccessToken == Json(401, [error |-> "Invalid or missing token"])

\* C10: refresh, revoke and the authenticated request go past the bearer
\* extraction only with a header that starts with "Bearer "; with no
\* header or any other header each of them gives its one failure response
\* and changes no table.
C10_BearerExtraction ==
    [][/\ \A req \in TokenRequests :
             handleRefresh(req) =>
                (res' = MissingCredential <=> ~HasBearerPrefix(req.authorization))
       /\ \A req \in TokenRequests :
             handleRevoke(req) =>
                /\ res' = MissingCredential <=> ~HasBearerPrefix(req.authorization)
                /\ ~HasBearerPrefix(req.authorization) => refreshTokens' = refreshTokens
       /\ \A req \in ChirpRequests :
             (/\ req.isJson
              /\ req.body.type = "string"
              /\ ~HasBearerPrefix(req.authorization)
              /\ handleValidateChirp(req))
                => res' = InvalidAccessToken /\ chirps' = chirps]_vars

\* a revoke or refresh request failed at the bearer extraction
C10_Witness == res = MissingCredential

----------------------------------------------------------------------------
(* Properties of the access token *)

\* the credential of a request whose header starts with "Bearer "
AccessTokenOf(req) == SubSeq(req.authorization.val, 8, Len(req.authorization.val))

\* the token has not the shape of a payload followed by its signature
Malformed(tok) == Len(tok) # 2 * (Len(Issuer) + 3) + 1

\* the signature of the token is that of its payload under key
SignedBy(tok, key) ==
    /\ tok[Len(Issuer) + 4] = key
    /\ \A i \in 1..(Len(Issuer) + 3) : tok[Len(Issuer) + 4 + i] = tok[i]

TokenFailure == Error("Error validating token")

\* C11: a chirp request whose access token is malformed, or signed with
\* another key, or expired, or without a subject, gets one and the same
\* error from validateJWT and one and the same 401 response, and stores no
\* chirp.
C11_AccessTokenFailureIsGeneric ==
    [][\A req \in ChirpRequests :
          (/\ req.isJson
           /\ req.body.type = "string"
           /\ HasBearerPrefix(req.authorization)
           /\ LET tok == AccessTokenOf(req)
              IN  \/ Malformed(tok)
                  \/ ~SignedBy(tok, Secret)
                  \/ JwtExp(tok) <= now.s
                  \/ JwtSubject(tok) = 0
           /\ handleValidateChirp(req))
             => /\ validateJWT(AccessTokenOf(req), Secret) = TokenFailure
                /\ res' = InvalidAccessToken
                /\ chirps' = chirps]_vars

\* a chirp request was refused after the tokens issued at time 0 expired
C11_Witness ==
    /\ res = InvalidAccessToken
    /\ now.s > AccessTTL

\* the lifetimes of the round trip: a minute, an hour, over 60 days
TTLs == {60, AccessTTL, RefreshTTL + 1}

Secrets == {Secret, OtherSecret}

\* C12: the token makeJWT issues for user u with lifetime ttl under secret
\* s is accepted by validateJWT under s, with result u, at the instant of
\* issue and at every later instant before its exp.
C12_AccessTokenRoundTrip ==
    [][\A u \in 1..MaxUsers, ttl \in TTLs, s \in Secrets :
          \A jwt \in {makeJWT(u, ttl, s)} :
             now'.s < JwtExp(jwt) => validateJWT(jwt, s)' = Str(u)]_vars

\* a token issued at time 0 is accepted 60 days later
C12_Witness ==
    /\ now.s = RefreshTTL
    /\ validateJWT(JwtSign(1, 0, RefreshTTL + 1, Secret), Secret) = Str(1)

\* access tokens issued at time 0, an hour before day 60, and at day 60
AccessTokens ==
    {JwtSign(u, t, t + AccessTTL, k) :
        u \in 1..MaxUsers, t \in {0, RefreshTTL - AccessTTL, RefreshTTL}, k \in Secrets}

\* C13: validateJWT returns a user id for a token under secret s only if
\* the token is signed with s and its exp is strictly later than now.
C13_ValidateRequiresSignatureAndTime ==
    \A tok \in AccessTokens, s \in Secrets :
       ~Throws(validateJWT(tok, s)) =>
          /\ SignedBy(tok, s)
          /\ Gt(T(JwtExp(tok), 0), now)

\* at day 60 a chirp was stored, while the token that expires at that
\* instant is rejected and the token issued at that instant is accepted
C13_Witness ==
    /\ now = T(RefreshTTL, 0)
    /\ res.status = 201
    /\ Throws(validateJWT(JwtSign(1, RefreshTTL - AccessTTL, RefreshTTL, Secret), Secret))
    /\ ~Throws(validateJWT(JwtSign(1, RefreshTTL, RefreshTTL + AccessTTL, Secret), Secret))

----------------------------------------------------------------------------
(* Properties of revocation *)

\* C14: a revoke request whose header starts with "Bearer " is answered
\* 204 in every state: whether the token has a live record, a revoked one,
\* an expired one or none.
C14_RevokeAlwaysSucceeds ==
    [][\A t \in PresentedTokens :
          handleRevoke(BearerRequest(t)) => res' = Json(204, <<>>)]_vars

\* a revoke was answered 204 for a record at or after the record's expiry
C14_Witness ==
    /\ res = Json(204, <<>>)
    /\ \E r \in refreshTokens : r.revokedAt = now /\ ~Gt(r.expiresAt, now)

----------------------------------------------------------------------------
(* Properties of requests served concurrently *)

\* C15: a lookup of a refresh executed when the record of its token is
\* already revoked finds no user, and a refresh is answered 200 exactly
\* when its lookup found a user: a refresh succeeds only if its lookup was
\* executed before the revoke committed.
C15_RevokeBeforeLookupFailsRefresh ==
    [][/\ \A t \in PresentedTokens :
             (Revoked(t) /\ handleRefreshSelect(BearerRequest(t))) =>
                \A p \in inflight' \ inflight : p.user = NULL
       /\ \A p \in inflight :
             (p.handler = "handleRefresh" /\ handleRefreshRespond(p)) =>
                IF p.user = NULL THEN res' = RefreshRefused ELSE res'.status = 200]_vars

\* a refresh was answered 200 although every record is revoked by now: the
\* revoke committed between its lookup and its response
C15_Witness ==
    /\ res.status = 200
    /\ DOMAIN res.body = {"token"}
    /\ refreshTokens # {}
    /\ \A r \in refreshTokens : r.revokedAt # NULL

\* the step leaves the records of token t, the result of a lookup of t and
\* the refreshes of t in flight as they are
Untouched(t) ==
    /\ \A q \in inflight : (q.handler = "handleRefresh" /\ q.token = t) => q \in inflight'
    /\ \/ refreshTokens' = refreshTokens
       \/ {r \in refreshTokens' : r.token = t} = {r \in refreshTokens : r.token = t}
    /\ \/ refreshTokens' = refreshTokens /\ users' = users /\ now' = now
       \/ getUserFromRefreshToken(t)' = getUserFromRefreshToken(t)

\* C16: a step that touches token t2 is not the revoke of another token
\* and not a step of a login, unless it is the login's insert of t2 itself:
\* a revoke of t1 and a login leave every other token untouched.
C16_OtherTokensUntouched ==
    [][\A t2 \in PresentedTokens :
          ~Untouched(t2) =>
             /\ \A t1 \in PresentedTokens \ {t2} : ~handleRevoke(BearerRequest(t1))
             /\ \A req \in LoginRequests : ~handleLoginSelect(req)
             /\ \A p \in inflight :
                   (p.handler = "handleLogin" /\ handleLoginInsert(p)) =>
                      /\ ~\E r \in refreshTokens : r.token = t2
                      /\ \E r \in refreshTokens' : r.token = t2]_vars

\* a revoke was answered while the same user holds a revoked and an
\* unrevoked token and a refresh of a token is in flight
C16_Witness ==
    /\ res = Json(204, <<>>)
    /\ \E r1, r2 \in refreshTokens :
          /\ r1.userId = r2.userId
          /\ r1.revokedAt # NULL
          /\ r2.revokedAt = NULL
          /\ \E q \in inflight : q.handler = "handleRefresh" /\ q.token = r2.token

----------------------------------------------------------------------------
(* Properties of the refresh-token records *)

\* C17, as the claim states it: every record is still stored after every
\* step, with all its fields but revokedAt as they were.
C17_OnlyRevokedAtChanges ==
    [][\A r \in refreshTokens :
          \E q \in refreshTokens' : [q EXCEPT !.revokedAt = r.revokedAt] = r]_vars

\* C17, amended: every record is still stored after every step, with all
\* its fields but revokedAt and updatedAt as they were: token, userId,
\* expiresAt and createdAt never change.
C17_OnlyRevocationFieldsChange ==
    [][\A r \in refreshTokens :
          \E q \in refreshTokens' :
             [q EXCEPT !.revokedAt = r.revokedAt, !.updatedAt = r.updatedAt] = r]_vars

\* a record was revoked at a later instant than it was created
C17_Witness ==
    \E r \in refreshTokens :
       /\ r.revokedAt # NULL
       /\ r.updatedAt = r.revokedAt
       /\ r.updatedAt # r.createdAt

\* C18: no two distinct records of refresh_tokens hold the same token.
C18_TokenValuesAreUnique ==
    \A r1, r2 \in refreshTokens : r1.token = r2.token => r1 = r2

\* a login stored a record next to one stored at another instant, with
\* every token value the table can hold in use
C18_Witness ==
    /\ Cardinality(refreshTokens) = MaxTokens
    /\ \E r1, r2 \in refreshTokens : r1.createdAt # r2.createdAt
    /\ res.status = 200
    /\ "refreshToken" \in DOMAIN res.body

----------------------------------------------------------------------------
(* Properties of the reset *)

\* C19: on a platform other than 'dev' a reset request is answered 403
\* and leaves the users and the hit counter as they are; a step removes a
\* user only on the 'dev' platform.
C19_ResetIsGated ==
    [][/\ (platform # "dev" /\ handleReset) =>
             /\ res' = Json(403, <<>>)
             /\ users' = users
             /\ fileserverHits' = fileserverHits
       /\ (\E u \in users : u \notin users') => platform = "dev"]_vars

\* a reset was refused while users are registered and hits are counted
C19_Witness ==
    /\ res = Json(403, <<>>)
    /\ users # {}
    /\ fileserverHits > 0

----------------------------------------------------------------------------
(* Properties of the password hash *)

\* a stored string that is not a bcrypt hash
NotAHash == [raw |-> "test"]

\* C20: the hash stored by a registration verifies the password of the
\* registration and no other password, and a string that is not a hash
\* verifies no password.
C20_PasswordVerificationIsExact ==
    [][\A req \in Credentials(Passwords \cup LongPasswords) :
          (res'.status = 201 /\ handleCreateUser(req)) =>
             \A u \in users' \ users :
                \A p \in Passwords \cup LongPasswords :
                   /\ checkPasswordHash(p, u.hashedPassword) <=> p = req.password.val
                   /\ ~checkPasswordHash(p, NotAHash)]_vars

----------------------------------------------------------------------------
(* Properties of the start of the server *)

----------------------------------------------------------------------------
(* Properties of the authenticated endpoint *)

\* the access token is well-formed, signed with the server's secret,
\* unexpired and has a subject
ValidAccessToken(tok) ==
    /\ ~Malformed(tok)
    /\ SignedBy(tok, Secret)
    /\ JwtExp(tok) > now.s
    /\ JwtSubject(tok) # 0

\* C22: a chirp request with a valid access token is authenticated as the
\* subject of the token in every state of refresh_tokens, also when every
\* refresh token of the subject is revoked or none was ever issued.
C22_RevocationLeavesAccessTokens ==
    [][\A req \in ChirpRequests :
          (/\ res' # NoResponse
           /\ UNCHANGED <<users, refreshTokens, fileserverHits>>
           /\ req.isJson
           /\ req.body.type = "string"
           /\ HasBearerPrefix(req.authorization)
           /\ ValidAccessToken(AccessTokenOf(req))
           /\ handleValidateChirp(req))
             => /\ res' # InvalidAccessToken
                /\ validateJWT(AccessTokenOf(req), Secret)
                      = Str(JwtSubject(AccessTokenOf(req)))
                /\ res'.status = 201 =>
                      res'.body.userId = JwtSubject(AccessTokenOf(req))]_vars

\* a chirp was stored for a user all of whose refresh tokens are revoked
C22_Witness ==
    /\ res.status = 201
    /\ "userId" \in DOMAIN res.body
    /\ \E r \in refreshTokens : r.userId = res.body.userId
    /\ \A r \in refreshTokens : r.revokedAt # NULL

----------------------------------------------------------------------------
(* Properties of a failed login *)

\* the login the handler is asked for cannot succeed: the body is not JSON,
\* the email or the password is not a string, or no user has the email with
\* the password
LoginFails(req) ==
    \/ ~req.isJson
    \/ req.email.type # "string"
    \/ req.password.type # "string"
    \/ \A u \in users :
          u.email = req.email.val => u.hashedPassword.digest[2] # req.password.val

\* C23: a login that fails leaves the refresh-token table as it was and
\* answers with no access token and no refresh token; a login changes the
\* table only by adding one record, and only when it answers 200.
C23_FailedLoginCreatesNoSession ==
    [][\A req \in LoginRequests :
          (/\ res' # NoResponse
           /\ UNCHANGED <<users, fileserverHits, now>>
           /\ handleLogin(req))
             => /\ LoginFails(req) =>
                      /\ refreshTokens' = refreshTokens
                      /\ DOMAIN res'.body \cap {"token", "refreshToken"} = {}
                /\ refreshTokens' # refreshTokens =>
                      /\ res'.status = 200
                      /\ refreshTokens \subseteq refreshTokens'
                      /\ Cardinality(refreshTokens') = Cardinality(refreshTokens) + 1]_vars

\* a login with a wrong password was refused while the user has a session
C23_Witness ==
    /\ res = LoginRefused
    /\ \E u \in users : \E r \in refreshTokens : r.userId = u.id

----------------------------------------------------------------------------
(* Properties of an unauthenticated chirp request *)

\* the request carries no bearer credential, or an access token that does
\* not validate under the server's secret now
Unauthenticated(req) ==
    \/ ~HasBearerPrefix(req.authorization)
    \/ ~ValidAccessToken(AccessTokenOf(req))

\* the chirps the request added
Posted == SubSeq(chirps', Len(chirps) + 1, Len(chirps'))

\* C24 as stated: a chirp is stored only under the subject of an access
\* token that validated on that request, and every chirp request without a
\* bearer credential or with a failing access token is answered 401 and
\* stores no chirp.
C24_UnauthenticatedIs401 ==
    [][\A req \in ChirpRequests :
          (/\ res' # NoResponse
           /\ UNCHANGED <<users, fileserverHits, now>>
           /\ handleValidateChirp(req))
             => /\ Unauthenticated(req) =>
                      /\ res'.status = 401
                      /\ chirps' = chirps
                /\ chirps' # chirps =>
                      /\ ~Unauthenticated(req)
                      /\ Len(Posted) = 1
                      /\ Posted[1].userId = JwtSubject(AccessTokenOf(req))]_vars

\* C24 amended: a chirp is stored only under the subject of an access
\* token that validated on that request; a chirp request without a bearer
\* credential or with a failing access token stores no chirp, and it is
\* answered 401 when its content type is JSON and its body field is a
\* string, and 400 otherwise.
C24_OnlyAuthenticatedPosts ==
    [][\A req \in ChirpRequests :
          (/\ res' # NoResponse
           /\ UNCHANGED <<users, fileserverHits, now>>
           /\ handleValidateChirp(req))
             => /\ Unauthenticated(req) =>
                      /\ chirps' = chirps
                      /\ IF req.isJson /\ req.body.type = "string"
                         THEN res' = InvalidAccessToken
                         ELSE res'.status = 400
                /\ chirps' # chirps =>
                      /\ ~Unauthenticated(req)
                      /\ Len(Posted) = 1
                      /\ Posted[1].userId = JwtSubject(AccessTokenOf(req))]_vars

\* a chirp request was refused for its credential after a chirp was stored
C24_Witness ==
    /\ res = InvalidAccessToken
    /\ Len(chirps) = 1

----------------------------------------------------------------------------
(* Properties of refresh tokens after a reset *)

\* the reset that deleted the users has just answered
ResetDone == Json(200, [ok |-> TRUE])

\* the record's user is in the table of users after the step
OwnedNext(r) == \E u \in users' : u.id = r.userId

\* C25: when the reset has deleted the users, no refresh-token record has
\* its user any more; the record of a token that has lost its user never
\* gets one again; and every refresh request presenting such a token is
\* answered 401, also when the record is neither revoked nor expired.
C25_ResetEndsSessions ==
    [][/\ res' = ResetDone => \A r \in refreshTokens' : ~OwnedNext(r)
       /\ \A r \in refreshTokens : ~Owned(r) =>
             \A r2 \in refreshTokens' : r2.token = r.token => ~OwnedNext(r2)
       /\ \A req \in TokenRequests :
             (/\ res' # NoResponse
              /\ UNCHANGED <<users, refreshTokens, fileserverHits, now>>
              /\ HasBearerPrefix(req.authorization)
              /\ \E r \in refreshTokens :
                    r.token = AccessTokenOf(req) /\ ~Owned(r)
              /\ handleRefresh(req))
                => res' = RefreshRefused]_vars

\* a refresh was refused while every token has a record that is neither
\* revoked nor expired, none of them with its user, and users registered
\* after the reset
C25_Witness ==
    /\ res = RefreshRefused
    /\ users # {}
    /\ \A t \in makeRefreshToken : \E r \in refreshTokens : r.token = t
    /\ \A r \in refreshTokens : r.revokedAt = NULL /\ Unexpired(r) /\ ~Owned(r)

====
